---- MODULE Spec2Model ----
(***************************************************************************)
(* Expense splitting, balance aggregation and settlement generation of the *)
(* bill-splitting backend (expenseController.js, Settlement.js and the     *)
(* settlement controller).                                                  *)
(*                                                                          *)
(* Money is a JavaScript Number in the source.  Here it is fixed point:    *)
(* one currency unit is Scale units, so that the tolerance 0.01 and the    *)
(* half-cent 0.005 are whole numbers and the divisions by the participant  *)
(* counts that occur are exact.  Percentages are counted in PctScale-ths   *)
(* of a percent.  Sums and comparisons are those of real arithmetic; the   *)
(* rounding of IEEE doubles (about 1e-13 here) is not modelled, and every  *)
(* input is chosen at least 0.005 away from a tolerance boundary.          *)
(***************************************************************************)
EXTENDS Integers, Sequences, FiniteSets, TLC

VARIABLES
    groups,       \* Group collection: group id -> sequence of [user, role]
    expenses,     \* Expense collection, in insertion order
    settlements,  \* Settlement collection, in insertion order
    clock,        \* Date.now(), counted in completions
    response,     \* the last HTTP response: [status, message, settlements]
    idEqStr       \* whether Array.includes on the mapped member array matches an
                  \* ObjectId against its string form (depends on the mongoose build)

vars == <<groups, expenses, settlements, clock, response, idEqStr>>

----------------------------------------------------------------------------
(* Bounds of the model *)

MaxExpenses == 3
MaxSplitExpenses == 1
MaxSettlements == 2
MaxStatusSettlements == 1
MaxClock == 3
MaxEditExpenses == 1
MaxGroupExpenses == 2
MaxGroupSettlements == 3
MaxPayerExpenses == 2
MaxMatchExpenses == 2
MaxRecomputeExpenses == 1
MaxRecomputeSettlements == 2
MaxAmountExpenses == 2
MaxPaidExpenses == 2
MaxListSettlements == 2
MaxGroups == 1
MaxMatchSettlements == 4

----------------------------------------------------------------------------
(* Units *)

\* units per currency unit
Scale == 3000
\* units per percent
PctScale == 200
\* 100 percent
PctFull == 100 * PctScale
\* the tolerance 0.01 of the sum checks, in money units and in percentage units
EPSILON == Scale \div 100
EPSILON_PCT == PctScale \div 100
\* an absent (undefined) number, and the NaN of 0 / 0
Undefined == 0 - 1000000000
NaN == Undefined - 1

Users == {"A", "B", "C", "D"}
NoGroup == "null"

Abs(x) == IF x < 0 THEN 0 - x ELSE x
Min(x, y) == IF x < y THEN x ELSE y

RECURSIVE SumSeq(_)
SumSeq(s) == IF Len(s) = 0 THEN 0 ELSE Head(s) + SumSeq(Tail(s))

RemoveAt(s, i) == SubSeq(s, 1, i - 1) \o SubSeq(s, i + 1, Len(s))

----------------------------------------------------------------------------
(* Group *)

\* group.members.map((member) => member.user)
memberUsers(g) == [i \in 1..Len(groups[g]) |-> groups[g][i].user]

isMember(g, u) == \E i \in 1..Len(groups[g]) : groups[g][i].user = u

isAdmin(g, u) ==
    \E i \in 1..Len(groups[g]) : groups[g][i].user = u /\ groups[g][i].role = "admin"

----------------------------------------------------------------------------
(* Split calculation *)

\* (amount * percentage) / 100, without overflowing 32 bits
percentageAmount(amount, percentage) ==
    (amount \div PctFull) * percentage + ((amount % PctFull) * percentage) \div PctFull

\* (split.amount / amount) * 100, without overflowing 32 bits
amountPercentage(splitAmount, amount) ==
    LET x == (IF amount < 0 THEN 0 - splitAmount ELSE splitAmount) * PctScale
        d == Abs(amount)
    IN (x \div d) * 100 + ((x % d) * 100) \div d

\* customSplits.reduce((sum, split) => sum + split.percentage, 0)
totalPercentage(customSplits) ==
    SumSeq([i \in 1..Len(customSplits) |-> customSplits[i].percentage])

\* customSplits.reduce((sum, split) => sum + split.amount, 0)
totalAmount(customSplits) ==
    SumSeq([i \in 1..Len(customSplits) |-> customSplits[i].amount])

\* An element of expenseParticipants: an ObjectId of the member list or a string.
ObjectIds(us) == [i \in 1..Len(us) |-> [user |-> us[i], str |-> FALSE]]
Strings(us) == [i \in 1..Len(us) |-> [user |-> us[i], str |-> TRUE]]

\* expenseParticipants.includes(u.toString())
includes(parts, u) ==
    \E i \in 1..Len(parts) : parts[i].user = u /\ (parts[i].str \/ idEqStr)

\* paidByMultiple.forEach: push every payer that includes() does not find
RECURSIVE pushPayers(_, _)
pushPayers(parts, payers) ==
    IF Len(payers) = 0 THEN parts
    ELSE pushPayers(
            IF includes(parts, Head(payers).user) THEN parts
            ELSE Append(parts, [user |-> Head(payers).user, str |-> TRUE]),
            Tail(payers))

\* "Ensure the person(s) who paid are always included in the split"
withPayers(parts, paidByMultiple, reqUser) ==
    IF Len(paidByMultiple) > 0 THEN pushPayers(parts, paidByMultiple)
    ELSE IF ~includes(parts, reqUser) THEN Append(parts, [user |-> reqUser, str |-> TRUE])
    ELSE parts

\* splitType === "equal"
equalSplits(amount, parts) ==
    [i \in 1..Len(parts) |->
        [user |-> parts[i].user, amount |-> amount \div Len(parts),
         percentage |-> Undefined, isPaid |-> FALSE]]

\* percentageSplits giving every participant of the directive the same part
percentageSplits_Even(amount, customSplits) ==
    [i \in 1..Len(customSplits) |->
        [user |-> customSplits[i].userId,
         amount |-> amount \div Len(customSplits),
         percentage |-> customSplits[i].percentage, isPaid |-> FALSE]]

\* splitType === "percentage"
percentageSplits(amount, customSplits) ==
    [i \in 1..Len(customSplits) |->
        [user |-> customSplits[i].userId,
         amount |-> percentageAmount(amount, customSplits[i].percentage),
         percentage |-> customSplits[i].percentage, isPaid |-> FALSE]]

\* splitType === "custom" of createExpense
customSplitsCreate(amount, customSplits) ==
    [i \in 1..Len(customSplits) |->
        [user |-> customSplits[i].userId, amount |-> customSplits[i].amount,
         percentage |-> IF amount = 0 THEN NaN
                        ELSE amountPercentage(customSplits[i].amount, amount),
         isPaid |-> FALSE]]

\* splitType === "custom" of updateExpense
customSplitsUpdate(amount, customSplits) ==
    [i \in 1..Len(customSplits) |->
        [user |-> customSplits[i].userId, amount |-> customSplits[i].amount,
         percentage |-> Undefined, isPaid |-> FALSE]]

\* percentageRejected without Math.abs
percentageRejected_NoAbs(customSplits) ==
    totalPercentage(customSplits) - PctFull > EPSILON_PCT

\* Math.abs(totalPercentage - 100) > 0.01
percentageRejected(customSplits) ==
    Abs(totalPercentage(customSplits) - PctFull) > EPSILON_PCT

\* customRejected without Math.abs
customRejected_NoAbs(amount, customSplits) ==
    totalAmount(customSplits) - amount > EPSILON

\* Math.abs(totalAmount - amount) > 0.01
customRejected(amount, customSplits) ==
    Abs(totalAmount(customSplits) - amount) > EPSILON

\* the validators of expenseSchema that expense.save() runs
expenseValid(e) ==
    /\ e.amount >= 0
    /\ \A i \in 1..Len(e.paidByMultiple) : e.paidByMultiple[i].amount >= 0
    /\ \A i \in 1..Len(e.splits) :
          /\ e.splits[i].amount >= 0
          /\ e.splits[i].percentage # NaN
          /\ e.splits[i].percentage # Undefined =>
                (e.splits[i].percentage >= 0 /\ e.splits[i].percentage <= PctFull)

----------------------------------------------------------------------------
(* Expense controller *)

Reply(status, message) == [status |-> status, message |-> message, settlements |-> <<>>]

\* new Expense({...}) of createExpense, with the splits of its split type
newExpense(user, body, parts) ==
    [amount |-> body.amount,
     group |-> body.groupId,
     paidBy |-> IF Len(body.paidByMultiple) > 0 THEN body.paidByMultiple[1].user ELSE user,
     paidByMultiple |-> IF Len(body.paidByMultiple) > 1 THEN body.paidByMultiple ELSE <<>>,
     splitType |-> body.splitType,
     splits |-> IF body.splitType = "equal" THEN equalSplits(body.amount, parts)
                ELSE IF body.splitType = "percentage"
                     THEN percentageSplits(body.amount, body.customSplits)
                ELSE customSplitsCreate(body.amount, body.customSplits)]

\* createExpense: the response and the Expense collection after the request
createExpenseResult(user, body) ==
    IF body.groupId # NoGroup /\ body.groupId \notin DOMAIN groups
    THEN [response |-> Reply(404, "Group not found."), expenses |-> expenses]
    ELSE IF body.groupId # NoGroup /\ ~isMember(body.groupId, user)
    THEN [response |-> Reply(403, "Access denied."), expenses |-> expenses]
    ELSE IF body.groupId = NoGroup /\ Len(body.participants) = 0
    THEN [response |-> Reply(400, "No participants specified for expense."),
          expenses |-> expenses]
    ELSE IF body.splitType = "percentage" /\ percentageRejected(body.customSplits)
    THEN [response |-> Reply(400, "Percentages must add up to 100%."),
          expenses |-> expenses]
    ELSE IF body.splitType = "custom" /\ customRejected(body.amount, body.customSplits)
    THEN [response |-> Reply(400, "Custom split amounts must add up to the total expense amount."),
          expenses |-> expenses]
    ELSE LET base == IF body.groupId # NoGroup THEN ObjectIds(memberUsers(body.groupId))
                     ELSE Strings(body.participants)
             parts == withPayers(base, body.paidByMultiple, user)
             expense == newExpense(user, body, parts)
         IN IF expenseValid(expense)
            THEN [response |-> Reply(201, "Expense created successfully"),
                  expenses |-> Append(expenses, expense)]
            ELSE [response |-> Reply(500, "Server error."), expenses |-> expenses]

\* isOwner || isGroupAdmin of updateExpense and deleteExpense
mayEdit(user, expense) ==
    \/ expense.paidBy = user
    \/ expense.group # NoGroup /\ isAdmin(expense.group, user)

\* the expense of updateExpense after its assignments, before expense.save()
updatedExpense(user, expense, body, parts) ==
    [amount |-> body.amount,
     group |-> expense.group,
     paidBy |-> IF Len(body.paidByMultiple) > 0 THEN body.paidByMultiple[1].user
                ELSE expense.paidBy,
     paidByMultiple |-> IF Len(body.paidByMultiple) > 1 THEN body.paidByMultiple
                        ELSE IF Len(body.paidByMultiple) = 1 THEN <<>>
                        ELSE expense.paidByMultiple,
     splitType |-> body.splitType,
     splits |-> IF body.splitType = "equal" THEN equalSplits(body.amount, parts)
                ELSE IF body.splitType = "percentage"
                     THEN percentageSplits(body.amount, body.customSplits)
                ELSE customSplitsUpdate(body.amount, body.customSplits)]

\* updateExpense: the response and the Expense collection after the request
updateExpenseResult(user, expenseId, body) ==
    IF expenseId \notin 1..Len(expenses)
    THEN [response |-> Reply(404, "Expense not found."), expenses |-> expenses]
    ELSE LET expense == expenses[expenseId] IN
    IF ~mayEdit(user, expense)
    THEN [response |-> Reply(403, "Access denied."), expenses |-> expenses]
    ELSE IF expense.group = NoGroup /\ Len(body.participants) = 0
    THEN [response |-> Reply(400, "No participants specified for expense."),
          expenses |-> expenses]
    ELSE IF body.splitType = "percentage" /\ percentageRejected(body.customSplits)
    THEN [response |-> Reply(400, "Percentages must add up to 100%."),
          expenses |-> expenses]
    ELSE IF body.splitType = "custom" /\ customRejected(body.amount, body.customSplits)
    THEN [response |-> Reply(400, "Custom split amounts must add up to the total expense amount."),
          expenses |-> expenses]
    ELSE LET base == IF expense.group # NoGroup THEN Strings(memberUsers(expense.group))
                     ELSE Strings(body.participants)
             parts == withPayers(base, body.paidByMultiple, user)
             updated == updatedExpense(user, expense, body, parts)
         IN IF expenseValid(updated)
            THEN [response |-> Reply(200, ""),
                  expenses |-> [expenses EXCEPT ![expenseId] = updated]]
            ELSE [response |-> Reply(500, "Server error."), expenses |-> expenses]

\* deleteExpense: the response and the Expense collection after the request
deleteExpenseResult(user, expenseId) ==
    IF expenseId \notin 1..Len(expenses)
    THEN [response |-> Reply(404, "Expense not found."), expenses |-> expenses]
    ELSE IF ~mayEdit(user, expenses[expenseId])
    THEN [response |-> Reply(403, "Access denied."), expenses |-> expenses]
    ELSE [response |-> Reply(200, "Expense deleted successfully."),
          expenses |-> RemoveAt(expenses, expenseId)]

createExpense(user, body, cap) ==
    /\ Len(expenses) < cap
    /\ response' = createExpenseResult(user, body).response
    /\ expenses' = createExpenseResult(user, body).expenses
    /\ UNCHANGED <<groups, settlements, clock, idEqStr>>

updateExpense(user, expenseId, body) ==
    /\ response' = updateExpenseResult(user, expenseId, body).response
    /\ expenses' = updateExpenseResult(user, expenseId, body).expenses
    /\ UNCHANGED <<groups, settlements, clock, idEqStr>>

deleteExpense(user, expenseId) ==
    /\ response' = deleteExpenseResult(user, expenseId).response
    /\ expenses' = deleteExpenseResult(user, expenseId).expenses
    /\ UNCHANGED <<groups, settlements, clock, idEqStr>>

----------------------------------------------------------------------------
(* Settlement model *)

GroupExpenses_All(g) == expenses

\* Expense.find({ group: groupId })
GroupExpenses(g) == SelectSeq(expenses, LAMBDA e : e.group = g)

\* what one expense adds to userBalances, in the order of the forEach
expenseEntries(e) ==
    <<[user |-> e.paidBy, delta |-> e.amount]>>
    \o [i \in 1..Len(e.splits) |-> [user |-> e.splits[i].user, delta |-> 0 - e.splits[i].amount]]

RECURSIVE balanceEntries(_)
balanceEntries(es) ==
    IF Len(es) = 0 THEN <<>> ELSE expenseEntries(Head(es)) \o balanceEntries(Tail(es))

\* Object.keys(userBalances): the users in the order of their first entry
RECURSIVE balanceUsers(_, _)
balanceUsers(entries, seen) ==
    IF Len(entries) = 0 THEN seen
    ELSE balanceUsers(Tail(entries),
            IF \E i \in 1..Len(seen) : seen[i] = Head(entries).user THEN seen
            ELSE Append(seen, Head(entries).user))

\* userBalances[u]: paid minus owed
userBalance(entries, u) ==
    SumSeq([i \in 1..Len(entries) |->
                IF entries[i].user = u THEN entries[i].delta ELSE 0])

Pending(fromUser, toUser, g, amount) ==
    [fromUser |-> fromUser, toUser |-> toUser, group |-> g, amount |-> amount,
     status |-> "pending", method |-> "other", notes |-> "", completedAt |-> 0]

\* pairSettlement with >= and <= for > and <
pairSettlement_NonStrict(user1, user2, balance1, balance2, g) ==
    IF balance1 >= 0 /\ balance2 <= 0
    THEN <<Pending(user1, user2, g, Min(balance1, Abs(balance2)))>>
    ELSE IF balance1 <= 0 /\ balance2 >= 0
    THEN <<Pending(user2, user1, g, Min(Abs(balance1), balance2))>>
    ELSE <<>>

\* the body of the inner loop for users[i], users[j]
pairSettlement(user1, user2, balance1, balance2, g) ==
    IF balance1 > 0 /\ balance2 < 0
    THEN <<Pending(user1, user2, g, Min(balance1, Abs(balance2)))>>
    ELSE IF balance1 < 0 /\ balance2 > 0
    THEN <<Pending(user2, user1, g, Min(Abs(balance1), balance2))>>
    ELSE <<>>

\* for (i ...) for (j = i + 1 ...), from the pair (i, j) on
RECURSIVE generateSettlements(_, _, _, _, _)
generateSettlements(users, entries, g, i, j) ==
    IF i > Len(users) THEN <<>>
    ELSE IF j > Len(users) THEN generateSettlements(users, entries, g, i + 1, i + 2)
    ELSE pairSettlement(users[i], users[j], userBalance(entries, users[i]),
                        userBalance(entries, users[j]), g)
         \o generateSettlements(users, entries, g, i, j + 1)

\* settlementsFor without the pairs that a stored settlement already covers
settlementsFor_Unsettled(g) ==
    LET entries == balanceEntries(GroupExpenses(g))
    IN SelectSeq(generateSettlements(balanceUsers(entries, <<>>), entries, g, 1, 2),
                 LAMBDA s : \A i \in 1..Len(settlements) :
                     \/ settlements[i].fromUser # s.fromUser
                     \/ settlements[i].toUser # s.toUser
                     \/ settlements[i].group # s.group)

\* Settlement.calculateGroupSettlements(groupId)
settlementsFor(g) ==
    LET entries == balanceEntries(GroupExpenses(g))
    IN generateSettlements(balanceUsers(entries, <<>>), entries, g, 1, 2)

\* the net balance of u in group g
netBalance(g, u) == userBalance(balanceEntries(GroupExpenses(g)), u)

----------------------------------------------------------------------------
(* Settlement controller *)

CalcOK == "Settlements calculated successfully"

calculateGroupSettlementsResult(user, g) ==
    IF g \notin DOMAIN groups
    THEN [response |-> Reply(404, "Group not found."), settlements |-> settlements]
    ELSE IF ~isMember(g, user)
    THEN [response |-> Reply(403, "Access denied."), settlements |-> settlements]
    ELSE [response |-> [status |-> 200, message |-> CalcOK, settlements |-> settlementsFor(g)],
          settlements |-> settlements \o settlementsFor(g)]

calculateGroupSettlements(user, g, cap) ==
    /\ Len(calculateGroupSettlementsResult(user, g).settlements) <= cap
    /\ response' = calculateGroupSettlementsResult(user, g).response
    /\ settlements' = calculateGroupSettlementsResult(user, g).settlements
    /\ UNCHANGED <<groups, expenses, clock, idEqStr>>

\* createSettlement: body = [toUserId, groupId, amount, method, notes]
createSettlementResult(user, body) ==
    IF body.groupId \notin DOMAIN groups
    THEN [response |-> Reply(404, "Group not found."), settlements |-> settlements]
    ELSE IF ~isMember(body.groupId, user) \/ ~isMember(body.groupId, body.toUserId)
    THEN [response |-> Reply(403, "Access denied."), settlements |-> settlements]
    ELSE IF body.amount < 0
    THEN [response |-> Reply(500, "Server error."), settlements |-> settlements]
    ELSE [response |-> Reply(201, "Settlement created successfully"),
          settlements |-> Append(settlements,
              [Pending(user, body.toUserId, body.groupId, body.amount)
                  EXCEPT !.method = body.method, !.notes = body.notes])]

createSettlement(user, body, cap) ==
    /\ Len(settlements) < cap
    /\ response' = createSettlementResult(user, body).response
    /\ settlements' = createSettlementResult(user, body).settlements
    /\ UNCHANGED <<groups, expenses, clock, idEqStr>>

\* .sort({ createdAt: -1 }): the latest first
RECURSIVE Reverse(_)
Reverse(s) == IF Len(s) = 0 THEN <<>> ELSE Append(Reverse(Tail(s)), Head(s))

\* getGroupSettlements: status = "" for a request without ?status=.  The handler
\* reads neither the group nor its members.
getGroupSettlementsResult(user, g, status) ==
    [response |-> [status |-> 200, message |-> "",
                   settlements |-> Reverse(SelectSeq(settlements,
                       LAMBDA s : s.group = g /\ (status = "" \/ s.status = status)))],
     settlements |-> settlements]

getGroupSettlements(user, g, status) ==
    /\ response' = getGroupSettlementsResult(user, g, status).response
    /\ settlements' = getGroupSettlementsResult(user, g, status).settlements
    /\ UNCHANGED <<groups, expenses, clock, idEqStr>>

Statuses == {"pending", "completed", "cancelled"}

\* the settlement of updateSettlementStatus when its saves are issued;
\* body = [status, method, notes, ...], "" for an absent status or method and
\* Absent for absent notes; the handler reads no other field of the body
Absent == "undefined"

\* updatedSettlement taking every field of the body, as Object.assign would
updatedSettlement_Assign(settlement, body) ==
    [settlement EXCEPT
        !.status = IF body.status # "" THEN body.status ELSE @,
        !.method = IF body.method # "" THEN body.method ELSE @,
        !.notes = IF body.notes # Absent THEN body.notes ELSE @,
        !.completedAt = IF body.status = "completed" THEN clock ELSE @,
        !.amount = body.amount, !.fromUser = body.fromUser,
        !.toUser = body.toUser, !.group = body.group]

updatedSettlement(settlement, body) ==
    [settlement EXCEPT
        !.status = IF body.status # "" THEN body.status ELSE @,
        !.method = IF body.method # "" THEN body.method ELSE @,
        !.notes = IF body.notes # Absent THEN body.notes ELSE @,
        !.completedAt = IF body.status = "completed" THEN clock ELSE @]

\* parallel: whether the build refuses the second save() of a document that is
\* being saved (markCompleted and cancel start a save that is not awaited)
updateSettlementStatusResult(user, settlementId, body, parallel) ==
    IF settlementId \notin 1..Len(settlements)
    THEN [response |-> Reply(404, "Settlement not found."), settlements |-> settlements]
    ELSE LET settlement == settlements[settlementId] IN
    IF settlement.fromUser # user /\ settlement.toUser # user
    THEN [response |-> Reply(403, "Access denied."), settlements |-> settlements]
    ELSE IF updatedSettlement(settlement, body).status \notin Statuses
    THEN [response |-> Reply(500, "Server error."), settlements |-> settlements]
    ELSE [response |-> IF parallel /\ body.status \in {"completed", "cancelled"}
                       THEN Reply(500, "Server error.")
                       ELSE Reply(200, "Settlement updated successfully"),
          settlements |-> [settlements EXCEPT
                              ![settlementId] = updatedSettlement(settlement, body)]]

updateSettlementStatus(user, settlementId, body, parallel) ==
    /\ body.status = "completed" => clock < MaxClock
    /\ response' = updateSettlementStatusResult(user, settlementId, body, parallel).response
    /\ settlements' = updateSettlementStatusResult(user, settlementId, body, parallel).settlements
    /\ clock' = IF body.status = "completed" /\ settlements' # settlements
                THEN clock + 1 ELSE clock
    /\ UNCHANGED <<groups, expenses, idEqStr>>

deleteSettlementResult(user, settlementId) ==
    IF settlementId \notin 1..Len(settlements)
    THEN [response |-> Reply(404, "Settlement not found."), settlements |-> settlements]
    ELSE IF settlements[settlementId].fromUser # user /\ settlements[settlementId].toUser # user
    THEN [response |-> Reply(403, "Access denied."), settlements |-> settlements]
    ELSE [response |-> Reply(200, "Settlement deleted successfully"),
          settlements |-> RemoveAt(settlements, settlementId)]

deleteSettlement(user, settlementId) ==
    /\ response' = deleteSettlementResult(user, settlementId).response
    /\ settlements' = deleteSettlementResult(user, settlementId).settlements
    /\ UNCHANGED <<groups, expenses, clock, idEqStr>>

----------------------------------------------------------------------------
(* Expense controller, second definition of updateExpense; Expense methods *)

\* body = [amount, splitType, customSplits, hasCustomSplits]: Undefined for an
\* absent amount, Absent for an absent splitType, hasCustomSplits = FALSE for
\* an absent customSplits
recomputes2(body) == body.amount # Undefined \/ body.splitType # Absent

\* percentage splits of the second updateExpense: { user, amount, paid }
percentageSplits2(amount, customSplits) ==
    [i \in 1..Len(customSplits) |->
        [user |-> customSplits[i].userId,
         amount |-> percentageAmount(amount, customSplits[i].percentage),
         percentage |-> Undefined, isPaid |-> FALSE]]

\* splits2 keeping the isPaid flag of the user's split of before
splits2_KeepPaid(expense, amount, body) ==
    LET fresh == IF body.splitType = "equal"
                 THEN equalSplits(amount, ObjectIds(memberUsers(expense.group)))
                 ELSE IF body.splitType = "percentage"
                 THEN percentageSplits2(amount, body.customSplits)
                 ELSE customSplitsUpdate(amount, body.customSplits)
    IN [i \in 1..Len(fresh) |->
           [fresh[i] EXCEPT !.isPaid =
               \E k \in 1..Len(expense.splits) :
                   expense.splits[k].user = fresh[i].user /\ expense.splits[k].isPaid]]

\* expense.splits after "Recalculate splits if amount or split type changed";
\* the field paid is no path of the schema, isPaid takes its default
splits2(expense, amount, body) ==
    IF body.splitType = "equal"
    THEN equalSplits(amount, ObjectIds(memberUsers(expense.group)))
    ELSE IF body.splitType = "percentage"
    THEN percentageSplits2(amount, body.customSplits)
    ELSE customSplitsUpdate(amount, body.customSplits)

\* a branch of the recalculation is taken
branch2(body) ==
    /\ recomputes2(body)
    /\ \/ body.splitType = "equal"
       \/ body.splitType \in {"percentage", "custom"} /\ body.hasCustomSplits

\* the expense of the second updateExpense after its assignments, before save()
updatedExpense2(expense, body) ==
    LET amount == IF body.amount # Undefined THEN body.amount ELSE expense.amount
    IN [expense EXCEPT
           !.amount = amount,
           !.splitType = IF body.splitType # Absent THEN body.splitType ELSE @,
           !.splits = IF branch2(body) THEN splits2(expense, amount, body) ELSE @]

\* updateExpense, second definition: the response and the Expense collection
updateExpense2Result(user, expenseId, body) ==
    IF expenseId \notin 1..Len(expenses)
    THEN [response |-> Reply(404, "Expense not found."), expenses |-> expenses]
    ELSE LET expense == expenses[expenseId]
             amount == IF body.amount # Undefined THEN body.amount ELSE expense.amount
         IN
    IF expense.group = NoGroup
    THEN [response |-> Reply(500, "Server error."), expenses |-> expenses]
    ELSE IF ~isMember(expense.group, user)
    THEN [response |-> Reply(403, "Access denied."), expenses |-> expenses]
    ELSE IF branch2(body) /\ body.splitType = "percentage"
            /\ percentageRejected(body.customSplits)
    THEN [response |-> Reply(400, "Percentages must add up to 100%."),
          expenses |-> expenses]
    ELSE IF branch2(body) /\ body.splitType = "custom"
            /\ customRejected(amount, body.customSplits)
    THEN [response |-> Reply(400, "Custom split amounts must add up to the total expense amount."),
          expenses |-> expenses]
    ELSE IF expenseValid(updatedExpense2(expense, body))
    THEN [response |-> Reply(200, "Expense updated successfully"),
          expenses |-> [expenses EXCEPT ![expenseId] = updatedExpense2(expense, body)]]
    ELSE [response |-> Reply(500, "Server error."), expenses |-> expenses]

updateExpense2(user, expenseId, body) ==
    /\ response' = updateExpense2Result(user, expenseId, body).response
    /\ expenses' = updateExpense2Result(user, expenseId, body).expenses
    /\ UNCHANGED <<groups, settlements, clock, idEqStr>>

\* expenseSchema.methods.markSplitAsPaid: the first split of the user
firstSplitOf(expense, userId) ==
    CHOOSE k \in 1..Len(expense.splits) :
        /\ expense.splits[k].user = userId
        /\ \A j \in 1..(k - 1) : expense.splits[j].user # userId

Expense_markSplitAsPaid(expenseId, userId) ==
    /\ expenseId \in 1..Len(expenses)
    /\ \E k \in 1..Len(expenses[expenseId].splits) : expenses[expenseId].splits[k].user = userId
    /\ expenses' = [expenses EXCEPT
                       ![expenseId].splits[firstSplitOf(expenses[expenseId], userId)].isPaid = TRUE]
    /\ UNCHANGED <<groups, settlements, clock, response, idEqStr>>

\* markSplitAsPaid of the controller.  `split.paid = true` sets a property that
\* is no path of the split schema (the path is isPaid), so expense.save() writes
\* nothing and the stored expense stays as it was.
markSplitAsPaidResult(user, expenseId, userId) ==
    IF expenseId \notin 1..Len(expenses)
    THEN [response |-> Reply(404, "Expense not found."), expenses |-> expenses]
    ELSE LET expense == expenses[expenseId] IN
    IF expense.group \notin DOMAIN groups
    THEN [response |-> Reply(500, "Server error."), expenses |-> expenses]
    ELSE IF ~isMember(expense.group, user)
    THEN [response |-> Reply(403, "Access denied."), expenses |-> expenses]
    ELSE IF \A k \in 1..Len(expense.splits) : expense.splits[k].user # userId
    THEN [response |-> Reply(404, "Split not found."), expenses |-> expenses]
    ELSE [response |-> Reply(200, "Split marked as paid successfully"),
          expenses |-> expenses]

markSplitAsPaid(user, expenseId, userId) ==
    /\ response' = markSplitAsPaidResult(user, expenseId, userId).response
    /\ expenses' = markSplitAsPaidResult(user, expenseId, userId).expenses
    /\ UNCHANGED <<groups, settlements, clock, idEqStr>>

----------------------------------------------------------------------------
(* Group controller *)

\* the result of a group request: the response and the Group collection
GroupReply(status, message, gs) == [response |-> Reply(status, message), groups |-> gs]

\* the _id of the next new group
GroupPool == <<"g1", "g2", "g3">>
newGroupId == GroupPool[Cardinality(DOMAIN groups) + 1]

\* createGroup: the creator is the only member, with role admin
createGroupResult(user) ==
    GroupReply(201, "Group created successfully",
               [g \in DOMAIN groups \cup {newGroupId} |->
                   IF g = newGroupId THEN <<[user |-> user, role |-> "admin"]>>
                   ELSE groups[g]])

\* requireGroupAdmin: the response that ends the request, or status 0 for next()
requireGroupAdmin(user, g) ==
    IF g \notin DOMAIN groups THEN Reply(404, "Group not found.")
    ELSE IF ~isAdmin(g, user) THEN Reply(403, "Access denied. Admin privileges required.")
    ELSE Reply(0, "")

\* group.addMember(userId, role) followed by its save()
Group_addMember(members, userId, role) ==
    IF \E i \in 1..Len(members) : members[i].user = userId THEN members
    ELSE Append(members, [user |-> userId, role |-> role])

\* group.removeMember(userId)
Group_removeMember(members, userId) == SelectSeq(members, LAMBDA m : m.user # userId)

\* addMember; target is the user that the email of the body belongs to, or
\* NoUser when it belongs to nobody
NoUser == "nobody"

addMemberResult(user, g, target, role) ==
    IF requireGroupAdmin(user, g).status # 0
    THEN [response |-> requireGroupAdmin(user, g), groups |-> groups]
    ELSE IF target = NoUser THEN GroupReply(404, "User not found.", groups)
    ELSE IF isMember(g, target)
    THEN GroupReply(400, "User is already a member of this group.", groups)
    ELSE IF role \notin {"admin", "member"} THEN GroupReply(500, "Server error.", groups)
    ELSE GroupReply(200, "Member added successfully",
                    [groups EXCEPT ![g] = Group_addMember(@, target, role)])

removeMemberResult(user, g, userId) ==
    IF requireGroupAdmin(user, g).status # 0
    THEN [response |-> requireGroupAdmin(user, g), groups |-> groups]
    ELSE IF userId = user
    THEN GroupReply(400, "You cannot remove yourself from the group.", groups)
    ELSE IF ~isMember(g, userId)
    THEN GroupReply(400, "User is not a member of this group.", groups)
    ELSE GroupReply(200, "Member removed successfully",
                    [groups EXCEPT ![g] = Group_removeMember(@, userId)])

\* changeMemberRole: the first member with the user id gets the role
changeMemberRoleResult(user, g, userId, role) ==
    IF requireGroupAdmin(user, g).status # 0
    THEN [response |-> requireGroupAdmin(user, g), groups |-> groups]
    ELSE IF role \notin {"admin", "member"} THEN GroupReply(400, "Invalid role.", groups)
    ELSE IF ~isMember(g, userId) THEN GroupReply(404, "Member not found.", groups)
    ELSE LET k == CHOOSE k \in 1..Len(groups[g]) :
                      /\ groups[g][k].user = userId
                      /\ \A j \in 1..(k - 1) : groups[g][j].user # userId
         IN GroupReply(200, "Member role updated successfully",
                       [groups EXCEPT ![g][k].role = role])

createGroup(user, cap) ==
    /\ Cardinality(DOMAIN groups) < cap
    /\ response' = createGroupResult(user).response
    /\ groups' = createGroupResult(user).groups
    /\ UNCHANGED <<expenses, settlements, clock, idEqStr>>

addMember(user, g, target, role) ==
    /\ response' = addMemberResult(user, g, target, role).response
    /\ groups' = addMemberResult(user, g, target, role).groups
    /\ UNCHANGED <<expenses, settlements, clock, idEqStr>>

removeMember(user, g, userId) ==
    /\ response' = removeMemberResult(user, g, userId).response
    /\ groups' = removeMemberResult(user, g, userId).groups
    /\ UNCHANGED <<expenses, settlements, clock, idEqStr>>

changeMemberRole(user, g, userId, role) ==
    /\ response' = changeMemberRoleResult(user, g, userId, role).response
    /\ groups' = changeMemberRoleResult(user, g, userId, role).groups
    /\ UNCHANGED <<expenses, settlements, clock, idEqStr>>

----------------------------------------------------------------------------
(* Requests *)

GroupIds == {"g1"}

\* n currency units, and half a cent
Cur(n) == n * Scale
HalfCent == Scale \div 200
\* n percent, and 0.005 percent
Percent(n) == n * PctScale
HalfPct == PctScale \div 200

Pct(u, p) == [userId |-> u, percentage |-> p, amount |-> 0]
Amt(u, a) == [userId |-> u, percentage |-> 0, amount |-> a]
Payer(u, a) == [user |-> u, amount |-> a]

Body(amount, g, splitType, customSplits, paidByMultiple, participants) ==
    [amount |-> amount, groupId |-> g, splitType |-> splitType,
     customSplits |-> customSplits, paidByMultiple |-> paidByMultiple,
     participants |-> participants]

\* the requests of the settlement calculation's specification
Bodies ==
    { Body(Cur(300), "g1", "equal", <<>>, <<>>, <<>>),
      Body(Cur(100), "g1", "custom", <<Amt("A", Cur(100))>>, <<>>, <<>>),
      Body(Cur(100), "g1", "custom", <<Amt("B", Cur(100))>>, <<>>, <<>>) }

\* A administers g1, B is a member of it, D is not
Members == {"A", "B"}
Requesters == {"A", "D"}

\* the directives of the split calculation's specification
PctDirectives ==
    { <<>>,
      <<Pct("A", Percent(50)), Pct("B", Percent(50))>>,
      <<Pct("A", Percent(50)), Pct("B", Percent(30)), Pct("C", Percent(20))>>,
      <<Pct("A", Percent(50)), Pct("B", Percent(50) + HalfPct)>>,
      <<Pct("A", Percent(50) - HalfPct), Pct("B", Percent(50))>>,
      <<Pct("A", Percent(50)), Pct("B", Percent(49))>>,
      <<Pct("A", Percent(50)), Pct("B", Percent(50) - PctScale \div 2)>>,
      <<Pct("A", Percent(50)), Pct("B", Percent(50) + PctScale \div 2)>>,
      <<Pct("A", Percent(150)), Pct("B", 0 - Percent(50))>> }

AmtDirectives(a) ==
    { <<>>,
      <<Amt("A", a \div 2), Amt("B", a \div 2)>>,
      <<Amt("A", a \div 3 - EPSILON), Amt("B", a \div 3 - EPSILON),
        Amt("C", a \div 3 + 2 * EPSILON)>>,
      <<Amt("A", a \div 2), Amt("B", a \div 2 + HalfCent)>>,
      <<Amt("A", a \div 2), Amt("B", a \div 2 + 2 * EPSILON)>>,
      <<Amt("A", a \div 2), Amt("B", a \div 2 - 2 * EPSILON)>>,
      <<Amt("A", a + HalfCent)>>,
      <<Amt("A", a + a \div 2), Amt("B", 0 - a \div 2)>> }

SplitAmounts == {Cur(300)}

SplitBodies ==
    { Body(a, gp[1], "equal", <<>>, pm, gp[2]) :
        a \in SplitAmounts,
        gp \in {<<"g1", <<>>>>, <<NoGroup, <<"A", "B">>>>, <<NoGroup, <<>>>>},
        pm \in {<<>>, <<Payer("B", Cur(150)), Payer("D", Cur(150))>>} }
    \cup
    { Body(a, gp[1], "percentage", d, <<>>, gp[2]) :
        a \in SplitAmounts,
        gp \in {<<"g1", <<>>>>, <<NoGroup, <<"A", "B">>>>, <<NoGroup, <<>>>>},
        d \in PctDirectives }
    \cup
    UNION { { Body(a, gp[1], "custom", d, <<>>, gp[2]) :
                gp \in {<<"g1", <<>>>>, <<NoGroup, <<"A", "B">>>>, <<NoGroup, <<>>>>},
                d \in AmtDirectives(a) } : a \in SplitAmounts }

\* the requests of the settlement life cycle's specification
SettlementBodies ==
    { [toUserId |-> t, groupId |-> "g1", amount |-> Cur(100), method |-> "other", notes |-> ""] :
        t \in {"B", "D"} }

StatusBodies ==
    { [status |-> st, method |-> mn[1], notes |-> mn[2],
       amount |-> Cur(5), fromUser |-> "B", toUser |-> "A", group |-> "g2"] :
        st \in {"", "pending", "completed", "cancelled", "paid"},
        mn \in {<<"", Absent>>, <<"cash", "n">>} }

\* the requests of the edit specification
Body2(amount, splitType, customSplits, hasCustomSplits) ==
    [amount |-> amount, splitType |-> splitType, customSplits |-> customSplits,
     hasCustomSplits |-> hasCustomSplits]

EditCreateBodies ==
    { Body(Cur(300), "g1", "custom", <<Amt("A", Cur(150)), Amt("B", Cur(150))>>, <<>>, <<>>),
      Body(Cur(300), "g1", "percentage", <<Pct("A", Percent(50)), Pct("B", Percent(50))>>,
           <<>>, <<>>),
      Body(Cur(300), NoGroup, "equal", <<>>, <<>>, <<"A", "B">>) }

EditBodies ==
    { Body(Cur(600), "g1", "equal", <<>>, <<>>, <<"A", "B">>),
      Body(Cur(600), "g1", "percentage", <<Pct("A", Percent(50)), Pct("B", Percent(50))>>,
           <<>>, <<"A", "B">>),
      Body(Cur(600), "g1", "custom", <<Amt("A", Cur(300)), Amt("B", Cur(300))>>,
           <<>>, <<"A", "B">>),
      Body(Cur(600), "g1", "custom", <<Amt("A", Cur(150)), Amt("B", Cur(150))>>,
           <<>>, <<"A", "B">>) }

EditBodies2 ==
    { Body2(Undefined, Absent, <<>>, FALSE),
      Body2(Cur(600), Absent, <<>>, FALSE),
      Body2(Cur(600), "custom", <<>>, FALSE),
      Body2(Undefined, "equal", <<>>, FALSE),
      Body2(Cur(600), "custom", <<Amt("A", Cur(300)), Amt("B", Cur(300))>>, TRUE),
      Body2(Undefined, "custom", <<Amt("A", Cur(150)), Amt("B", Cur(150))>>, TRUE),
      Body2(Cur(600), "custom", <<Amt("A", Cur(150)), Amt("B", Cur(150))>>, TRUE),
      Body2(Undefined, "percentage", <<Pct("A", Percent(50)), Pct("B", Percent(50))>>, TRUE),
      Body2(Cur(600), "percentage", <<Pct("A", Percent(50)), Pct("B", Percent(49))>>, TRUE) }

\* the requests of the specification with two groups
GroupBodies ==
    { Body(Cur(100), "g1", "custom", <<Amt("B", Cur(100)), Amt("C", 0)>>, <<>>, <<>>),
      Body(Cur(100), "g2", "custom", <<Amt("C", Cur(100))>>, <<>>, <<>>),
      Body(Cur(100), NoGroup, "custom", <<Amt("B", Cur(100))>>, <<>>, <<"A", "B">>) }

GroupSettlementBodies ==
    { [toUserId |-> t, groupId |-> g, amount |-> Cur(50), method |-> "cash", notes |-> ""] :
        t \in {"B", "C"}, g \in {"g1", "g2", "g3"} }

\* the requests of the specification of payers and participants
PayerLists ==
    { <<>>,
      <<Payer("B", Cur(300))>>,
      <<Payer("B", Cur(150)), Payer("D", Cur(150))>>,
      <<Payer("B", Cur(100)), Payer("D", Cur(100))>> }

PayerBodies ==
    { Body(Cur(300), gp[1], "equal", <<>>, pm, gp[2]) :
        gp \in {<<"g1", <<>>>>, <<NoGroup, <<"A", "B">>>>}, pm \in PayerLists }
    \cup
    { Body(Cur(300), "g1", "custom", <<Amt("B", Cur(150)), Amt("B", Cur(150))>>, <<>>, <<>>),
      Body(Cur(300), "g1", "percentage", <<Pct("A", Percent(50)), Pct("B", Percent(50))>>,
           <<>>, <<>>) }

\* the requests of the matching specification: A or B pays what C or D owes
MatchBodies ==
    { Body(Cur(100), "g1", "custom", <<Amt(u, Cur(100))>>, <<>>, <<>>) : u \in {"C", "D"} }

\* the requests of the recomputation specification
RecomputeBodies ==
    { Body(Cur(100), "g1", "custom", <<Amt("B", Cur(100))>>, <<>>, <<>>),
      Body(Cur(200), "g1", "custom", <<Amt("C", Cur(200))>>, <<>>, <<>>) }

RecomputeStatusBodies ==
    { [status |-> st, method |-> "", notes |-> Absent,
       amount |-> Cur(5), fromUser |-> "B", toUser |-> "A", group |-> "g2"] :
        st \in {"completed", "cancelled"} }

\* the requests of the amount specification: no amount, a debt and an amount,
\* in a group, with participants and without, for every split type
AmountBodies ==
    UNION { { Body(a, gp[1], "equal", <<>>, <<>>, gp[2]),
              Body(a, gp[1], "percentage",
                   <<Pct("A", Percent(50)), Pct("B", Percent(50))>>, <<>>, gp[2]),
              Body(a, gp[1], "custom", <<Amt("A", a \div 2), Amt("B", a \div 2)>>,
                   <<>>, gp[2]),
              Body(a, gp[1], "custom", <<>>, <<>>, gp[2]) } :
            a \in {0, 0 - Cur(300), Cur(300)},
            gp \in {<<"g1", <<>>>>, <<NoGroup, <<"A", "B">>>>, <<NoGroup, <<>>>>} }

\* the requests of the listing specification: by A, a member of g1 and g2, by
\* B, a member of g1 only, and by D, a member of neither
ListUsers == {"A", "B", "D"}

ListSettlementBodies ==
    { [toUserId |-> IF g = "g1" THEN "B" ELSE "C", groupId |-> g, amount |-> Cur(50),
       method |-> "cash", notes |-> ""] : g \in {"g1", "g2"} }

\* the requests of the membership specification
MemberGroupIds == {"g1", "g2", "g3"}
MemberRoles == {"admin", "member", "owner"}

----------------------------------------------------------------------------
(* Specifications *)

Init ==
    /\ groups = [g \in GroupIds |->
                    <<[user |-> "A", role |-> "admin"], [user |-> "B", role |-> "member"],
                      [user |-> "C", role |-> "member"]>>]
    /\ expenses = <<>>
    /\ settlements = <<>>
    /\ clock = 1
    /\ response = Reply(0, "")
    /\ idEqStr \in BOOLEAN

\* expenses and the settlement calculation
Next ==
    \/ \E user \in Members, body \in Bodies : createExpense(user, body, MaxExpenses)
    \/ \E user \in Requesters, g \in GroupIds :
          calculateGroupSettlements(user, g, MaxSettlements)

Spec == Init /\ [][Next]_vars

\* the split calculation of createExpense and updateExpense
NextSplit ==
    \/ \E user \in Requesters, body \in SplitBodies :
          createExpense(user, body, MaxSplitExpenses)
    \/ \E user \in Requesters, id \in 1..MaxSplitExpenses, body \in SplitBodies :
          updateExpense(user, id, body)
    \/ \E user \in Requesters, id \in 1..MaxSplitExpenses : deleteExpense(user, id)

SpecSplit == Init /\ [][NextSplit]_vars

\* the life cycle of a settlement
NextStatus ==
    \/ \E user \in {"A"} :
          createExpense(user, Body(Cur(100), "g1", "custom", <<Amt("C", Cur(100))>>, <<>>, <<>>),
                        1)
    \/ \E user \in Requesters, g \in GroupIds :
          calculateGroupSettlements(user, g, MaxStatusSettlements)
    \/ \E user \in {"A", "D"}, body \in SettlementBodies :
          createSettlement(user, body, MaxStatusSettlements)
    \/ \E user \in {"A", "B", "C"}, id \in 1..MaxStatusSettlements, body \in StatusBodies,
          parallel \in BOOLEAN :
          updateSettlementStatus(user, id, body, parallel)
    \/ \E user \in {"A", "B", "C"}, id \in 1..MaxStatusSettlements : deleteSettlement(user, id)

SpecStatus == Init /\ [][NextStatus]_vars

\* editing an expense, with both definitions of updateExpense
NextEdit ==
    \/ \E user \in {"A"}, body \in EditCreateBodies :
          createExpense(user, body, MaxEditExpenses)
    \/ \E user \in {"A"}, id \in 1..MaxEditExpenses, body \in EditBodies :
          updateExpense(user, id, body)
    \/ \E user \in Requesters, id \in 1..MaxEditExpenses, body \in EditBodies2 :
          updateExpense2(user, id, body)
    \/ \E id \in 1..MaxEditExpenses, userId \in {"A", "B"} :
          Expense_markSplitAsPaid(id, userId)
    \/ \E user \in {"A"}, id \in 1..MaxEditExpenses : deleteExpense(user, id)

SpecEdit == Init /\ [][NextEdit]_vars

\* two groups: A administers both, B is a member of g1 and C of g2
InitGroups ==
    /\ groups = [g \in {"g1", "g2"} |->
                    <<[user |-> "A", role |-> "admin"],
                      [user |-> IF g = "g1" THEN "B" ELSE "C", role |-> "member"]>>]
    /\ expenses = <<>>
    /\ settlements = <<>>
    /\ clock = 1
    /\ response = Reply(0, "")
    /\ idEqStr \in BOOLEAN

\* expenses of two groups and of no group, calculated and manual settlements
NextGroups ==
    \/ \E user \in {"A"}, body \in GroupBodies : createExpense(user, body, MaxGroupExpenses)
    \/ \E user \in {"A", "B"}, g \in {"g1", "g2", "g3"} :
          calculateGroupSettlements(user, g, MaxGroupSettlements)
    \/ \E user \in {"A", "B"}, body \in GroupSettlementBodies :
          createSettlement(user, body, MaxGroupSettlements)

SpecGroups == InitGroups /\ [][NextGroups]_vars

\* payers and participants of an expense
NextPayers ==
    \/ \E user \in {"A"}, body \in PayerBodies : createExpense(user, body, MaxPayerExpenses)
    \/ \E user \in {"A"}, id \in 1..MaxPayerExpenses, body \in PayerBodies :
          updateExpense(user, id, body)
    \/ \E user \in {"A"}, id \in 1..MaxPayerExpenses : deleteExpense(user, id)

SpecPayers == Init /\ [][NextPayers]_vars

\* the matching of several creditors with several debtors
NextMatch ==
    \/ \E user \in Members, body \in MatchBodies : createExpense(user, body, MaxMatchExpenses)
    \/ \E user \in Members, g \in GroupIds :
          calculateGroupSettlements(user, g, MaxMatchSettlements)

SpecMatch == Init /\ [][NextMatch]_vars

\* expenses created, edited and deleted between calculations, and settlements
\* completed between calculations
NextRecompute ==
    \/ \E user \in {"A"}, body \in RecomputeBodies :
          createExpense(user, body, MaxRecomputeExpenses)
    \/ \E user \in {"A"}, id \in 1..MaxRecomputeExpenses, body \in RecomputeBodies :
          updateExpense(user, id, body)
    \/ \E user \in {"A"}, id \in 1..MaxRecomputeExpenses : deleteExpense(user, id)
    \/ \E user \in {"A"}, g \in GroupIds :
          calculateGroupSettlements(user, g, MaxRecomputeSettlements)
    \/ \E user \in {"A"}, body \in RecomputeStatusBodies :
          updateSettlementStatus(user, 1, body, FALSE)

SpecRecompute == Init /\ [][NextRecompute]_vars

\* creation with amounts of every sign
NextAmount ==
    \E user \in {"A"}, body \in AmountBodies : createExpense(user, body, MaxAmountExpenses)

SpecAmount == Init /\ [][NextAmount]_vars

\* marking the splits of an expense as paid
NextPaid ==
    \/ \E user \in {"A"}, body \in EditCreateBodies :
          createExpense(user, body, MaxPaidExpenses)
    \/ \E user \in Requesters, id \in 1..MaxPaidExpenses, userId \in {"A", "B", "D"} :
          markSplitAsPaid(user, id, userId)
    \/ \E id \in 1..MaxPaidExpenses, userId \in {"A", "B"} :
          Expense_markSplitAsPaid(id, userId)

SpecPaid == Init /\ [][NextPaid]_vars

\* the settlement operations of a group, asked by members and by others
NextList ==
    \/ \E user \in {"A"} :
          createExpense(user, Body(Cur(100), "g1", "custom", <<Amt("B", Cur(100))>>, <<>>, <<>>),
                        1)
    \/ \E user \in ListUsers, g \in {"g1", "g2"}, status \in {"", "pending"} :
          getGroupSettlements(user, g, status)
    \/ \E user \in ListUsers, g \in {"g1", "g2"} :
          calculateGroupSettlements(user, g, MaxListSettlements)
    \/ \E user \in ListUsers, body \in ListSettlementBodies :
          createSettlement(user, body, MaxListSettlements)

SpecList == InitGroups /\ [][NextList]_vars

\* no group yet
InitMembers ==
    /\ groups = [g \in {} |-> <<>>]
    /\ expenses = <<>>
    /\ settlements = <<>>
    /\ clock = 1
    /\ response = Reply(0, "")
    /\ idEqStr \in BOOLEAN

\* the members of a group and their roles
NextMembers ==
    \/ \E user \in Members : createGroup(user, MaxGroups)
    \/ \E user \in Members, g \in MemberGroupIds, target \in {"A", "B", "C", NoUser},
          role \in MemberRoles :
          addMember(user, g, target, role)
    \/ \E user \in Members, g \in MemberGroupIds, userId \in {"A", "B", "C"} :
          removeMember(user, g, userId)
    \/ \E user \in Members, g \in MemberGroupIds, userId \in {"A", "B", "C"},
          role \in MemberRoles :
          changeMemberRole(user, g, userId, role)

SpecMembers == InitMembers /\ [][NextMembers]_vars

----------------------------------------------------------------------------
(* Claims about the settlement calculation, under Spec *)

\* what the settlements of a list pay to p, and what they take from p
SumTo(list, p) ==
    SumSeq([i \in 1..Len(list) |-> IF list[i].toUser = p THEN list[i].amount ELSE 0])

SumFrom(list, p) ==
    SumSeq([i \in 1..Len(list) |-> IF list[i].fromUser = p THEN list[i].amount ELSE 0])

\* the last request was a settlement calculation that succeeded
Calculated == response.message = CalcOK

\* C1: settlement conservation.  For every participant p, the amounts of the
\* returned settlements with toUser = p minus those with fromUser = p equal p's
\* net balance, within 0.01.
C1_SettlementConservation ==
    Calculated =>
        \A g \in GroupIds, p \in Users :
            Abs(SumTo(response.settlements, p) - SumFrom(response.settlements, p)
                - netBalance(g, p)) <= EPSILON

\* C3: direction of payment.  In every returned settlement fromUser is a net
\* debtor (negative balance) and toUser a net creditor (positive balance).
C3_DirectionOfPayment ==
    Calculated =>
        \A g \in GroupIds, i \in 1..Len(response.settlements) :
            /\ netBalance(g, response.settlements[i].fromUser) < 0
            /\ netBalance(g, response.settlements[i].toUser) > 0

\* C7: the calculation is idempotent.  A calculation that follows a calculation,
\* the expenses unchanged, leaves the stored settlements as the first one left them.
C7_CalculationIdempotent ==
    [][(Calculated /\ response'.message = CalcOK /\ expenses' = expenses)
        => settlements' = settlements]_vars

AllSettled(g) == \A p \in Users : netBalance(g, p) = 0

\* C8: the empty case.  When every net balance of the group is zero, the
\* calculation returns the empty list and stores no settlement.
C8_EmptyCase ==
    [][\A g \in GroupIds :
          (response'.message = CalcOK /\ expenses' = expenses /\ AllSettled(g))
          => (response'.settlements = <<>> /\ settlements' = settlements)]_vars

\* two expenses, each paid by one user for the other, have been calculated
C8_Witness ==
    /\ Calculated
    /\ Len(expenses) = 2
    /\ expenses[1].paidBy # expenses[2].paidBy
    /\ \A i \in 1..2 : \A k \in 1..Len(expenses[i].splits) :
          expenses[i].splits[k].user # expenses[i].paidBy
    /\ AllSettled("g1")
    /\ response.settlements = <<>>

----------------------------------------------------------------------------
(* Claims about the split calculation, under SpecSplit *)

SplitTotal(e) == SumSeq([k \in 1..Len(e.splits) |-> e.splits[k].amount])

\* C2: zero-sum.  The net balances of a group's accepted expenses sum to 0 over
\* all participants, within 0.01.
C2_ZeroSum ==
    \A g \in GroupIds :
        LET users == balanceUsers(balanceEntries(GroupExpenses(g)), <<>>)
        IN Abs(SumSeq([k \in 1..Len(users) |-> netBalance(g, users[k])])) <= EPSILON

\* C4: split conservation.  The amounts of the splits of every accepted expense
\* sum to the expense amount, within 0.01.
C4_SplitConservation ==
    \A i \in 1..Len(expenses) : Abs(SplitTotal(expenses[i]) - expenses[i].amount) <= EPSILON

PctBodies == {b \in SplitBodies : b.splitType = "percentage"}
CustomBodies == {b \in SplitBodies : b.splitType = "custom"}

\* the supplied percentages sum to more than 100.01 or to less than 99.99
PctSumOff(b) ==
    LET sum == SumSeq([k \in 1..Len(b.customSplits) |-> b.customSplits[k].percentage])
    IN sum > PctFull + EPSILON_PCT \/ sum < PctFull - EPSILON_PCT

\* the supplied amounts sum to more than amount + 0.01 or to less than amount - 0.01
AmtSumOff(b) ==
    LET sum == SumSeq([k \in 1..Len(b.customSplits) |-> b.customSplits[k].amount])
    IN sum > b.amount + EPSILON \/ sum < b.amount - EPSILON

\* the request passes the checks that precede the split calculation
CreateAdmitted(user, b) ==
    IF b.groupId = NoGroup THEN Len(b.participants) > 0
    ELSE b.groupId \in GroupIds /\ isMember(b.groupId, user)

UpdateAdmitted(user, id, b) ==
    /\ id \in 1..Len(expenses)
    /\ expenses[id].paidBy = user
       \/ (expenses[id].group # NoGroup /\ isAdmin(expenses[id].group, user))
    /\ expenses[id].group # NoGroup \/ Len(b.participants) > 0

\* the outcome r refuses the request: an error status, the collection as it was
Refused(r) == r.response.status >= 400 /\ r.expenses = expenses

\* the outcome r of createExpense stores an expense with the splits of the body
CreatedWith(r, b, Same(_, _)) ==
    /\ r.response.status = 201
    /\ Len(r.expenses) = Len(expenses) + 1
    /\ LET e == r.expenses[Len(r.expenses)]
       IN /\ e.splitType = b.splitType
          /\ Len(e.splits) = Len(b.customSplits)
          /\ \A k \in 1..Len(e.splits) : Same(e.splits[k], b.customSplits[k])

\* the outcome r of updateExpense stores expense id with the splits of the body
UpdatedWith(r, id, b, Same(_, _)) ==
    /\ r.response.status = 200
    /\ Len(r.expenses) = Len(expenses)
    /\ LET e == r.expenses[id]
       IN /\ e.splitType = b.splitType
          /\ Len(e.splits) = Len(b.customSplits)
          /\ \A k \in 1..Len(e.splits) : Same(e.splits[k], b.customSplits[k])

SamePct(split, d) == split.user = d.userId /\ split.percentage = d.percentage
SameAmt(split, d) == split.user = d.userId /\ split.amount = d.amount

\* every supplied percentage lies within 0..100
PctInRange(b) ==
    \A k \in 1..Len(b.customSplits) :
        b.customSplits[k].percentage >= 0 /\ b.customSplits[k].percentage <= PctFull

\* the expense amount is positive and every supplied amount lies within 0..amount
AmtInRange(b) ==
    b.amount > 0
    /\ \A k \in 1..Len(b.customSplits) :
          b.customSplits[k].amount >= 0 /\ b.customSplits[k].amount <= b.amount

\* C9 as claimed: a percentage request is refused when the percentages sum to a
\* value off 100 by more than 0.01, and accepted otherwise.
C9_PercentageValidation ==
    [][\A user \in Requesters, b \in PctBodies :
          /\ createExpense(user, b, MaxSplitExpenses) =>
                IF PctSumOff(b) THEN expenses' = expenses /\ response'.status >= 400
                ELSE CreateAdmitted(user, b) => response'.status = 201
          /\ \A id \in 1..MaxSplitExpenses :
                updateExpense(user, id, b) =>
                    IF PctSumOff(b) THEN expenses' = expenses /\ response'.status >= 400
                    ELSE UpdateAdmitted(user, id, b) => response'.status = 200]_vars

\* C9 as amended: a percentage request is refused when the percentages sum to a
\* value off 100 by more than 0.01 (with status 400 when it passed the access and
\* participant checks); otherwise it is accepted, the splits being those of the
\* directive, provided that it passed those checks and that every percentage
\* lies within 0..100 and the amount is not negative.
C9_PercentageValidationAmended ==
    \A user \in Requesters, b \in PctBodies :
        /\ LET r == createExpenseResult(user, b)
           IN IF PctSumOff(b)
              THEN Refused(r) /\ (CreateAdmitted(user, b) => r.response.status = 400)
              ELSE (CreateAdmitted(user, b) /\ PctInRange(b) /\ b.amount >= 0)
                      => CreatedWith(r, b, SamePct)
        /\ \A id \in 1..Len(expenses) :
              LET r == updateExpenseResult(user, id, b)
              IN IF PctSumOff(b)
                 THEN Refused(r) /\ (UpdateAdmitted(user, id, b) => r.response.status = 400)
                 ELSE (UpdateAdmitted(user, id, b) /\ PctInRange(b) /\ b.amount >= 0)
                         => UpdatedWith(r, id, b, SamePct)

\* a percentage expense whose percentages sum to 100.005 is stored, and a
\* percentage request has just been refused
C9_Witness ==
    /\ response.status = 400
    /\ response.message = "Percentages must add up to 100%."
    /\ \E i \in 1..Len(expenses) :
          /\ expenses[i].splitType = "percentage"
          /\ SumSeq([k \in 1..Len(expenses[i].splits) |-> expenses[i].splits[k].percentage])
                = PctFull + HalfPct

\* C10 as claimed: a custom request is refused when the amounts sum to a value
\* off the expense amount by more than 0.01, and otherwise accepted with every
\* split's amount the supplied amount.
C10_CustomValidation ==
    [][\A user \in Requesters, b \in CustomBodies :
          /\ createExpense(user, b, MaxSplitExpenses) =>
                IF AmtSumOff(b) THEN expenses' = expenses /\ response'.status >= 400
                ELSE CreateAdmitted(user, b) => response'.status = 201
          /\ \A id \in 1..MaxSplitExpenses :
                updateExpense(user, id, b) =>
                    IF AmtSumOff(b) THEN expenses' = expenses /\ response'.status >= 400
                    ELSE UpdateAdmitted(user, id, b) => response'.status = 200]_vars

\* C10 as amended: a custom request is refused when the amounts sum to a value
\* off the expense amount by more than 0.01 (with status 400 when it passed the
\* access and participant checks); otherwise it is accepted with every split's
\* amount the supplied amount, provided that it passed those checks and that
\* every supplied amount lies within 0 and the expense amount.
C10_CustomValidationAmended ==
    \A user \in Requesters, b \in CustomBodies :
        /\ LET r == createExpenseResult(user, b)
           IN IF AmtSumOff(b)
              THEN Refused(r) /\ (CreateAdmitted(user, b) => r.response.status = 400)
              ELSE (CreateAdmitted(user, b) /\ AmtInRange(b))
                      => CreatedWith(r, b, SameAmt)
        /\ \A id \in 1..Len(expenses) :
              LET r == updateExpenseResult(user, id, b)
              IN IF AmtSumOff(b)
                 THEN Refused(r) /\ (UpdateAdmitted(user, id, b) => r.response.status = 400)
                 ELSE (UpdateAdmitted(user, id, b) /\ AmtInRange(b))
                         => UpdatedWith(r, id, b, SameAmt)

\* a custom expense whose amounts sum to the amount plus 0.005 is stored, and a
\* custom request has just been refused
C10_Witness ==
    /\ response.status = 400
    /\ response.message = "Custom split amounts must add up to the total expense amount."
    /\ \E i \in 1..Len(expenses) :
          /\ expenses[i].splitType = "custom"
          /\ SplitTotal(expenses[i]) = expenses[i].amount + HalfCent

----------------------------------------------------------------------------
(* Claims about the life cycle of a settlement, under SpecStatus *)

Terminal(s) == s.status \in {"completed", "cancelled"}

\* C5: the status machine.  The status of a settlement changes only from pending,
\* and only to completed or cancelled.
C5_StatusMachine ==
    [][Len(settlements') = Len(settlements) =>
          \A i \in 1..Len(settlements) :
              settlements'[i].status # settlements[i].status =>
                  /\ settlements[i].status = "pending"
                  /\ settlements'[i].status \in {"completed", "cancelled"}]_vars

\* C6: a completed or cancelled settlement is immutable.  No request other than
\* its deletion changes any of its fields.
C6_TerminalImmutable ==
    [][Len(settlements') = Len(settlements) =>
          \A i \in 1..Len(settlements) :
              Terminal(settlements[i]) => settlements'[i] = settlements[i]]_vars

----------------------------------------------------------------------------
(* Claims about editing an expense, under SpecEdit *)

SplitMessages ==
    { "Percentages must add up to 100%.",
      "Custom split amounts must add up to the total expense amount." }

\* the stored expense passes the sum check of its split type for its amount
SumCheckOK(e) ==
    /\ e.splitType = "custom" => Abs(SplitTotal(e) - e.amount) <= EPSILON
    /\ (e.splitType = "percentage"
          /\ \A k \in 1..Len(e.splits) : e.splits[k].percentage # Undefined)
        => Abs(SumSeq([k \in 1..Len(e.splits) |-> e.splits[k].percentage]) - PctFull)
              <= EPSILON_PCT

\* C11: a validation failure rejects the entire write.  A request refused by
\* the split validation leaves the stored expenses as they were, and every
\* stored expense passes the sum check of its split type for its stored amount.
C11_ValidationRejectsWrite ==
    [][/\ response'.message \in SplitMessages => expenses' = expenses
       /\ \A i \in 1..Len(expenses') : SumCheckOK(expenses'[i])]_vars

----------------------------------------------------------------------------
(* Claims about the origin of settlements, under SpecGroups *)

\* the settlements the step has added to the collection
Added(old, new) == SubSeq(new, Len(old) + 1, Len(new))

\* C12: every settlement the calculation creates has a strictly positive amount
\* and the status pending, and a manually created settlement starts as pending.
C12_StartsPending ==
    [][Len(settlements') > Len(settlements) =>
          \A i \in (Len(settlements) + 1)..Len(settlements') :
              /\ settlements'[i].status = "pending"
              /\ response'.message = CalcOK => settlements'[i].amount > 0]_vars

\* a calculation over balances +100, -100 and 0 has added a settlement to a
\* collection that holds a manually created one
C12_Witness ==
    /\ Calculated
    /\ Len(response.settlements) = 1
    /\ netBalance("g1", "A") > 0 /\ netBalance("g1", "B") < 0 /\ netBalance("g1", "C") = 0
    /\ \E k \in 1..Len(expenses) : \E j \in 1..Len(expenses[k].splits) :
          expenses[k].group = "g1" /\ expenses[k].splits[j].user = "C"
    /\ Len(settlements) = 2
    /\ settlements[1].method = "cash"
    /\ settlements[2] = response.settlements[1]

----------------------------------------------------------------------------
(* Claims about payers and participants, under SpecPayers *)

\* what user u paid of expense e: u's entries of the payers, or the amount when
\* u is the only payer
PaidBy(e, u) ==
    IF Len(e.paidByMultiple) > 0
    THEN SumSeq([k \in 1..Len(e.paidByMultiple) |->
                    IF e.paidByMultiple[k].user = u THEN e.paidByMultiple[k].amount ELSE 0])
    ELSE IF e.paidBy = u THEN e.amount ELSE 0

\* what user u owes of expense e
OwedBy(e, u) ==
    SumSeq([k \in 1..Len(e.splits) |-> IF e.splits[k].user = u THEN e.splits[k].amount ELSE 0])

\* C13: multi-payer credit.  The balance of a user is what the user paid, each
\* payer counted with the payer's own amount, minus what the user owes.
C13_MultiPayerCredit ==
    \A g \in GroupIds, u \in Users :
        netBalance(g, u) =
            SumSeq([i \in 1..Len(GroupExpenses(g)) |->
                      PaidBy(GroupExpenses(g)[i], u) - OwedBy(GroupExpenses(g)[i], u)])

\* C14: the paid amounts of a stored expense with several payers sum to the
\* amount of the expense.
C14_PayersSumToAmount ==
    \A i \in 1..Len(expenses) :
        Len(expenses[i].paidByMultiple) > 0 =>
            Abs(SumSeq([k \in 1..Len(expenses[i].paidByMultiple) |->
                           expenses[i].paidByMultiple[k].amount]) - expenses[i].amount)
                <= EPSILON

\* C15: no user has two splits in a stored expense.
C15_ParticipantOnce ==
    \A i \in 1..Len(expenses) :
        \A j, k \in 1..Len(expenses[i].splits) :
            expenses[i].splits[j].user = expenses[i].splits[k].user => j = k

----------------------------------------------------------------------------
(* Claims about the parties of a settlement, under SpecStatus *)

Party(s, user) == s.fromUser = user \/ s.toUser = user

\* C16: only the creditor (toUser) moves a pending settlement to completed;
\* either party may cancel it; a request of a user who is neither party, to
\* update or to delete, leaves the settlements as they were.
C16_OnlyCreditorCompletes ==
    [][\A user \in Users, id \in 1..Len(settlements) :
          /\ \A body \in StatusBodies, parallel \in BOOLEAN :
                updateSettlementStatus(user, id, body, parallel) =>
                    /\ (settlements[id].status = "pending"
                          /\ settlements'[id].status = "completed")
                        => user = settlements[id].toUser
                    /\ ~Party(settlements[id], user) => settlements' = settlements
          /\ deleteSettlement(user, id) =>
                (~Party(settlements[id], user) => settlements' = settlements)]_vars

\* C17: no request but a deletion changes the amount, the parties or the group
\* of a stored settlement.
C17_PartiesAndAmountFrozen ==
    [][Len(settlements') >= Len(settlements) =>
          \A i \in 1..Len(settlements) :
              /\ settlements'[i].amount = settlements[i].amount
              /\ settlements'[i].fromUser = settlements[i].fromUser
              /\ settlements'[i].toUser = settlements[i].toUser
              /\ settlements'[i].group = settlements[i].group]_vars

\* a status update has been accepted and has changed status, method and notes
C17_Witness ==
    /\ response.message = "Settlement updated successfully"
    /\ \E i \in 1..Len(settlements) :
          /\ settlements[i].status = "completed"
          /\ settlements[i].method = "cash"
          /\ settlements[i].notes = "n"
          /\ settlements[i].amount = Cur(100)

----------------------------------------------------------------------------
(* Claims about the number of settlements, under SpecMatch *)

\* the participants of group g with a balance other than zero
Unsettled(g) == {u \in Users : netBalance(g, u) # 0}

\* C18: a calculation over n participants with a balance other than zero emits
\* fewer than n settlements (none when n = 0).
C18_LinearSettlements ==
    Calculated =>
        \A g \in GroupIds :
            IF Unsettled(g) = {} THEN Len(response.settlements) = 0
            ELSE Len(response.settlements) < Cardinality(Unsettled(g))

----------------------------------------------------------------------------
(* Claims about the paid flags of an edited expense, under SpecEdit *)

\* the request makes the second updateExpense recompute the splits
RecomputesSplits2(b) ==
    \/ b.splitType = "equal"
    \/ b.splitType \in {"percentage", "custom"} /\ b.hasCustomSplits

\* the splits of e are those of the request and none is paid
FreshSplits(e, splitType, customSplits) ==
    /\ \A k \in 1..Len(e.splits) : ~e.splits[k].isPaid
    /\ splitType # "equal" =>
          /\ Len(e.splits) = Len(customSplits)
          /\ \A k \in 1..Len(e.splits) : e.splits[k].user = customSplits[k].userId

SomePaid(e) == \E k \in 1..Len(e.splits) : e.splits[k].isPaid

\* C19: an accepted updateExpense that recomputes the splits leaves the expense
\* with the splits of the request, none of them paid, whatever was paid before:
\* in every reachable state, for every request to either definition.
C19_EditResetsPaid ==
    \A user \in Requesters, id \in 1..Len(expenses) :
        /\ \A body \in EditBodies :
              LET r == updateExpenseResult(user, id, body)
              IN r.response.status = 200
                    => FreshSplits(r.expenses[id], body.splitType, body.customSplits)
        /\ \A body \in EditBodies2 :
              LET r == updateExpense2Result(user, id, body)
              IN (r.response.status = 200 /\ RecomputesSplits2(body))
                    => FreshSplits(r.expenses[id], body.splitType, body.customSplits)

\* a split of a stored expense is paid, and both definitions of updateExpense
\* accept a request that recomputes the splits of that expense
C19_Witness ==
    \E id \in 1..Len(expenses) :
        /\ SomePaid(expenses[id])
        /\ \E body \in EditBodies :
              /\ updateExpenseResult("A", id, body).response.status = 200
              /\ ~SomePaid(updateExpenseResult("A", id, body).expenses[id])
        /\ \E body \in EditBodies2 :
              /\ RecomputesSplits2(body)
              /\ updateExpense2Result("A", id, body).response.status = 200
              /\ ~SomePaid(updateExpense2Result("A", id, body).expenses[id])

----------------------------------------------------------------------------
(* Claims about the group of a settlement, under SpecGroups *)

\* what the expenses whose group is g, and no other, leave user u with
OwnBalance(g, u) ==
    SumSeq([i \in 1..Len(expenses) |->
               IF expenses[i].group = g
               THEN (IF expenses[i].paidBy = u THEN expenses[i].amount ELSE 0)
                       - OwedBy(expenses[i], u)
               ELSE 0])

\* settlement s is of group g and follows from the expenses of g alone
OfGroupOnly(s, g) ==
    /\ s.group = g
    /\ OwnBalance(g, s.fromUser) # 0
    /\ OwnBalance(g, s.toUser) # 0
    /\ s.amount = Min(Abs(OwnBalance(g, s.fromUser)), Abs(OwnBalance(g, s.toUser)))

\* C20: settlements never cross groups.  In every reachable state, the
\* settlements that a calculation for group g answers with and stores carry
\* group g and follow from the expenses of g alone, and a manual settlement is
\* stored only when both of its parties are members of its group.
C20_NeverCrossGroups ==
    /\ \A user \in Users, g \in {"g1", "g2", "g3"} :
          LET r == calculateGroupSettlementsResult(user, g)
              new == Added(settlements, r.settlements)
          IN /\ \A i \in 1..Len(new) : OfGroupOnly(new[i], g)
             /\ r.response.status = 200 => r.response.settlements = new
    /\ \A user \in Users, body \in GroupSettlementBodies :
          LET new == Added(settlements, createSettlementResult(user, body).settlements)
          IN \A i \in 1..Len(new) :
                /\ new[i].group = body.groupId
                /\ new[i].group \in DOMAIN groups
                /\ isMember(new[i].group, new[i].fromUser)
                /\ isMember(new[i].group, new[i].toUser)

\* expenses of g1 and of another or no group are stored, a manual settlement
\* is stored, the calculation for g1 has just answered with a settlement, and
\* a manual settlement with a party outside the group would be refused
C20_Witness ==
    /\ \E i, j \in 1..Len(expenses) : expenses[i].group = "g1" /\ expenses[j].group # "g1"
    /\ \E i \in 1..Len(settlements) : settlements[i].method = "cash"
    /\ Calculated
    /\ Len(response.settlements) > 0
    /\ \A i \in 1..Len(response.settlements) : response.settlements[i].group = "g1"
    /\ \E body \in GroupSettlementBodies :
          createSettlementResult("B", body).response.status = 403

----------------------------------------------------------------------------
(* Claims about the recomputation of settlements, under SpecRecompute *)

\* the matching of the balances that the expenses es of group g leave: a
\* function of es and g and of nothing else
FromExpenses(es, g) ==
    LET entries == balanceEntries(SelectSeq(es, LAMBDA e : e.group = g))
    IN generateSettlements(balanceUsers(entries, <<>>), entries, g, 1, 2)

\* C21: the list that the calculation for a group answers with is a function
\* of the current expenses alone.  In every reachable state, whatever
\* settlements are stored and whatever status they have, and whatever expenses
\* were edited or deleted before, the calculation answers with the matching of
\* the expenses stored now, and with the empty list when none is stored.
C21_RecomputedFromExpenses ==
    \A user \in Members, g \in GroupIds :
        LET r == calculateGroupSettlementsResult(user, g)
        IN /\ r.response.status = 200
           /\ r.response.settlements = FromExpenses(expenses, g)
           /\ expenses = <<>> => r.response.settlements = <<>>

\* a calculation has just answered with a settlement while a completed
\* settlement of an earlier calculation, made before the expense was edited,
\* is stored
C21_Witness ==
    /\ Calculated
    /\ Len(response.settlements) = 1
    /\ Len(settlements) = 2
    /\ settlements[1].status = "completed"
    /\ settlements[1].amount # settlements[2].amount
    /\ response.settlements[1] = settlements[2]

----------------------------------------------------------------------------
(* Claims about the amount and the participants of a new expense, under SpecAmount *)

\* the request names no participant
EmptyParticipants(b) == b.groupId = NoGroup /\ Len(b.participants) = 0

\* C22: createExpense with an amount that is not positive, or with no
\* participant, is refused (a status of 400 or more) and stores nothing, for
\* every split type.
C22_RejectsNonPositive ==
    [][\A user \in {"A"}, b \in AmountBodies :
          (createExpense(user, b, MaxAmountExpenses)
              /\ (b.amount <= 0 \/ EmptyParticipants(b)))
            => (expenses' = expenses /\ response'.status >= 400)]_vars

----------------------------------------------------------------------------
(* Claims about the splits of each split type *)

\* the users of the splits of e
SplitUsers(e) == {e.splits[j].user : j \in 1..Len(e.splits)}

\* C23 (under SpecPayers): the splits of a stored expense of split type equal
\* over k distinct participants are k records, one per participant (every
\* member of the group of a group expense among them), each with the k-th part
\* of the amount and not paid.
C23_EqualSplit ==
    \A i \in 1..Len(expenses) :
        expenses[i].splitType = "equal" =>
            LET e == expenses[i]
                k == Cardinality(SplitUsers(e))
            IN /\ Len(e.splits) = k
               /\ e.group # NoGroup => \A u \in Users : isMember(e.group, u) => u \in SplitUsers(e)
               /\ \A j \in 1..Len(e.splits) :
                     e.splits[j].amount * k = e.amount /\ ~e.splits[j].isPaid


\* split is the part of directive entry d in an expense of the given amount:
\* split.amount = amount * d.percentage / 100, counted in hundredths of the amount
OwedPct(split, d, amount) ==
    /\ split.user = d.userId
    /\ split.percentage = d.percentage
    /\ split.amount * (PctFull \div 100) = (amount \div 100) * d.percentage

\* the splits of e are those of the directive of b, in the order of the directive
PctSplitsOf(e, b) ==
    /\ e.splitType = "percentage"
    /\ e.amount = b.amount
    /\ Len(e.splits) = Len(b.customSplits)
    /\ \A k \in 1..Len(e.splits) : OwedPct(e.splits[k], b.customSplits[k], b.amount)

\* C24 (under SpecSplit): whenever createExpense or updateExpense accepts a
\* request of split type percentage, the stored splits are those of the
\* directive, one per entry and for the user of the entry, each with the
\* amount  expense amount * percentage / 100.
C24_PercentageSplit ==
    \A user \in Requesters, b \in PctBodies :
        /\ LET r == createExpenseResult(user, b)
           IN r.response.status = 201 =>
                 (Len(r.expenses) = Len(expenses) + 1
                    /\ PctSplitsOf(r.expenses[Len(r.expenses)], b))
        /\ \A id \in 1..Len(expenses) :
              LET r == updateExpenseResult(user, id, b)
              IN r.response.status = 200 => PctSplitsOf(r.expenses[id], b)

\* an expense of 300 split 50 / 30 / 20 has just been stored with splits of
\* 150, 90 and 60
C24_Witness ==
    /\ response.status \in {200, 201}
    /\ Len(expenses) = 1
    /\ expenses[1].splitType = "percentage"
    /\ expenses[1].amount = Cur(300)
    /\ [k \in 1..Len(expenses[1].splits) |-> expenses[1].splits[k].amount]
          = <<Cur(150), Cur(90), Cur(60)>>
    /\ [k \in 1..Len(expenses[1].splits) |-> expenses[1].splits[k].user] = <<"A", "B", "C">>

----------------------------------------------------------------------------
(* Claims about the paid flag of a split, under SpecPaid *)

\* user u has a split in expense e
HasSplit(e, u) == \E k \in 1..Len(e.splits) : e.splits[k].user = u

\* C25: a markSplitAsPaid request for user u on expense e that succeeds leaves
\* the split of u paid and every other split of e, and every other expense, as
\* it was; a request for a user without a split in e fails and changes nothing.
C25_MarkSplitAsPaid ==
    [][\A user \in Requesters, id \in 1..Len(expenses), u \in {"A", "B", "D"} :
          markSplitAsPaid(user, id, u) =>
              IF response'.status = 200
              THEN /\ HasSplit(expenses[id], u)
                   /\ Len(expenses') = Len(expenses)
                   /\ \A i \in 1..Len(expenses) : i # id => expenses'[i] = expenses[i]
                   /\ Len(expenses'[id].splits) = Len(expenses[id].splits)
                   /\ \A k \in 1..Len(expenses[id].splits) :
                         IF expenses[id].splits[k].user = u
                         THEN expenses'[id].splits[k].isPaid
                         ELSE expenses'[id].splits[k] = expenses[id].splits[k]
              ELSE expenses' = expenses /\ response'.status >= 400]_vars

----------------------------------------------------------------------------
(* Claims about the stored settlements *)

\* C26 (under SpecStatus): a stored settlement has a completion date exactly
\* when its status is completed.
C26_CompletedAtIffCompleted ==
    \A i \in 1..Len(settlements) :
        settlements[i].completedAt # 0 <=> settlements[i].status = "completed"


\* the two parties of settlement s
Pair(s) == {s.fromUser, s.toUser}

\* C27 (under SpecGroups): no stored settlement is from a user to the same
\* user, and the list that a calculation answers with holds at most one
\* settlement for each pair of users.
C27_NoSelfSettlement ==
    /\ \A i \in 1..Len(settlements) : settlements[i].fromUser # settlements[i].toUser
    /\ Calculated =>
          \A i, j \in 1..Len(response.settlements) :
              i # j => Pair(response.settlements[i]) # Pair(response.settlements[j])

----------------------------------------------------------------------------
(* Claims about the payers of an expense, under SpecPayers *)

\* the payers of expense e
Payers(e) == {e.paidBy} \cup {e.paidByMultiple[k].user : k \in 1..Len(e.paidByMultiple)}

\* C28: payer inclusion.  Every payer of a stored expense has a split in it,
\* whatever the split type.
C28_PayerInclusion ==
    \A i \in 1..Len(expenses) : \A u \in Payers(expenses[i]) : HasSplit(expenses[i], u)

----------------------------------------------------------------------------
(* Claims about the access to the settlements of a group, under SpecList *)

\* C29: the settlement operations of a group serve its members only.  To a
\* user who is not a member of the group, a listing answers with no settlement,
\* and a calculation and a manual creation answer with an error status and no
\* settlement and store nothing.
C29_MembersOnly ==
    [][\A user \in ListUsers, g \in {"g1", "g2"} :
          ~isMember(g, user) =>
              /\ \A status \in {"", "pending"} :
                    getGroupSettlements(user, g, status) => response'.settlements = <<>>
              /\ calculateGroupSettlements(user, g, MaxListSettlements) =>
                    /\ response'.status >= 400 /\ response'.settlements = <<>>
                    /\ settlements' = settlements
              /\ \A body \in ListSettlementBodies :
                    (body.groupId = g /\ createSettlement(user, body, MaxListSettlements)) =>
                        (response'.status >= 400 /\ settlements' = settlements)]_vars

----------------------------------------------------------------------------
(* Claims about the members of a group, under SpecMembers *)

\* C30: every group has a member with role admin, and no user is a member of
\* it twice.
C30_AdminAndDistinctMembers ==
    \A g \in DOMAIN groups :
        /\ \E i \in 1..Len(groups[g]) : groups[g][i].role = "admin"
        /\ \A i, j \in 1..Len(groups[g]) : i # j => groups[g][i].user # groups[g][j].user

====
